---- MODULE Spec2Model ----
(***************************************************************************)
(* Model of src/utils/deduplicate.py: class Duplication.                   *)
(*                                                                         *)
(* A dataframe is [cols |-> <<column names>>, rows |-> <<rows>>], a row is *)
(* [id |-> row identifier (the pandas index label), v |-> column -> cell]. *)
(* An optional attribute (None in Python) is the empty sequence, a set one *)
(* is the one-element sequence of its value.                               *)
(* Scores of the metric and the thresholds are in thousandths.             *)
(***************************************************************************)
EXTENDS Integers, Sequences, FiniteSets, TLC

VARIABLES self, pc, df_patient, df_patient_init, vi, all_dupli,
          indice_duplicates, err, ncalls, ctor, prev, lastop, clog

vars == <<self, pc, df_patient, df_patient_init, vi, all_dupli,
          indice_duplicates, err, ncalls, ctor, prev, lastop, clog>>

-----------------------------------------------------------------------------
(* Bounds of the model *)

MaxRows == 3
MaxPcr == 2
MaxCalls == 2
MaxRowsAgain == 1

-----------------------------------------------------------------------------
(* Python's None / a set value *)

None == <<>>
Some(x) == <<x>>
Get(o) == o[1]

Range(s) == {s[i] : i \in 1..Len(s)}

\* a function on 1..n as the sequence of its values
Tuple(f) == f \o <<>>

RECURSIVE WhereFrom(_, _)
WhereFrom(mask, i) ==
  IF i > Len(mask) THEN <<>>
  ELSE (IF mask[i] THEN <<i>> ELSE <<>>) \o WhereFrom(mask, i + 1)

\* positions of the true cells of a boolean sequence, ascending
Where(mask) == WhereFrom(mask, 1)

Pick(s, pos) == Tuple([k \in 1..Len(pos) |-> s[pos[k]]])

RECURSIVE SortSet(_)
SortSet(S) ==
  IF S = {} THEN <<>>
  ELSE LET m == CHOOSE x \in S : \A y \in S : x <= y
       IN <<m>> \o SortSet(S \ {m})

RECURSIVE Flatten(_)
Flatten(ss) == IF ss = <<>> THEN <<>> ELSE Head(ss) \o Flatten(Tail(ss))

-----------------------------------------------------------------------------
(* pandas / numpy primitives used by the class *)

Index(df) == Tuple([i \in 1..Len(df.rows) |-> df.rows[i].id])
Column(df, var) == Tuple([i \in 1..Len(df.rows) |-> df.rows[i].v[var]])
HasColumn(df, var) == var \in Range(df.cols)

\* Series.duplicated(keep=False): every occurrence of a repeated value
duplicated(s) ==
  Tuple([i \in 1..Len(s) |-> \E j \in 1..Len(s) : j # i /\ s[j] = s[i]])

\* Series.unique(): the distinct values in order of first appearance
unique(s) ==
  Pick(s, Where([i \in 1..Len(s) |-> \A j \in 1..(i - 1) : s[j] # s[i]]))

\* df[mask]: the rows at the true positions, in table order
Filter(df, mask) == [cols |-> df.cols, rows |-> Pick(df.rows, Where(mask))]

\* df.loc[labels]: for each label in the order given, the rows carrying it
Loc(df, labels) ==
  [cols |-> df.cols,
   rows |-> Flatten([k \in 1..Len(labels) |->
              Pick(df.rows,
                   Where([i \in 1..Len(df.rows) |-> df.rows[i].id = labels[k]]))])]

\* np.setdiff1d(a, b): the sorted unique values of a that are not in b
setdiff1d(a, b) == SortSet(Range(a) \ Range(b))

\* jellyfish.jaro_winkler_similarity on the cell values of the model
jaro_winkler_similarity(x, y) ==
  IF x = y THEN 1000
  ELSE IF {x, y} = {"ann", "anne"} THEN 941
  ELSE IF {x, y} = {"p1", "p2"} THEN 700
  ELSE 0

-----------------------------------------------------------------------------
(* Methods of class Duplication, as functions of their arguments *)

\* Series.isin(values)
isin(s, values) ==
  LET vals == Range(values)
  IN Tuple([i \in 1..Len(s) |-> s[i] \in vals])

any(mask) == \E i \in 1..Len(mask) : mask[i]

PcrColumn(df_pcr, var) == Tuple([k \in 1..Len(df_pcr) |-> df_pcr[k][var]])

\* __find_positive__: over the pcr rows of the tested patients (idx: their
\* labels in df_pcr, in df_pcr order), whether the result is "P"
find_positive(index_tested, df_pcr, df) ==
  LET tested == Column(Loc(df, index_tested), "patient_id")
      idx == Where(isin(PcrColumn(df_pcr, "patient_id"), tested))
  IN [idx |-> idx, val |-> [k \in 1..Len(idx) |-> df_pcr[idx[k]].pcr = "P"]]

\* a variant of __get_positive__ that forgets the mask is_positive and takes
\* every pcr row of the tested patients
get_positive_unmasked(df, df_pcr, is_positive) ==
  LET ids == Pick(PcrColumn(df_pcr, "patient_id"), is_positive.idx)
  IN Index(Filter(df, isin(Column(df, "patient_id"), ids)))

\* __get_positive__: the index of the rows of df_patient whose patient_id has
\* a positive pcr row, in df_patient order
get_positive(df, df_pcr, is_positive) ==
  LET labels == Pick(is_positive.idx, Where(is_positive.val))
      ids == Pick(PcrColumn(df_pcr, "patient_id"), labels)
  IN Index(Filter(df, isin(Column(df, "patient_id"), ids)))

\* __make_cluster__: the cluster of a repeated value and its reference row.
\* cluster.patient_id raises AttributeError on a table without that column.
make_cluster(variable, df, df_pcr, dupli) ==
  LET col == Column(df, variable)
      cluster == Filter(df, [i \in 1..Len(col) |-> col[i] = dupli])
  IN IF df_pcr = None
     THEN [err |-> "", cluster |-> cluster, ref_index |-> Index(cluster)[1]]
     ELSE IF ~HasColumn(cluster, "patient_id")
     THEN [err |-> "AttributeError", cluster |-> cluster, ref_index |-> 0]
     ELSE
       LET is_tested == isin(Column(cluster, "patient_id"),
                             PcrColumn(Get(df_pcr), "patient_id"))
           index_tested == Pick(Index(cluster), Where(is_tested))
           h_many_id == Len(index_tested)
           is_positive == find_positive(index_tested, Get(df_pcr), df)
           index_positive == get_positive(df, Get(df_pcr), is_positive)
           ref_index ==
             IF any(is_tested)
             THEN IF h_many_id = 1
                  THEN index_tested[1]
                  ELSE IF any(is_positive.val)
                       THEN Pick(index_positive,
                                 Where(isin(index_positive, index_tested)))[1]
                       ELSE index_tested[1]
             ELSE Index(cluster)[1]
       IN [err |-> "", cluster |-> cluster, ref_index |-> ref_index]

\* cluster.loc[line, var]
Cell(cluster, line, var) ==
  (CHOOSE r \in Range(cluster.rows) : r.id = line).v[var]

\* a variant of __matching_cluster__ that does not skip the reference line
matching_cluster_with_ref(cluster, ref_index, var_similarity, metric_confidence) ==
  LET lines == Index(cluster)
  IN [cols |-> cluster.cols,
      rows |-> [k \in 1..Len(lines) |->
        [id |-> lines[k],
         v |-> [var \in Range(cluster.cols) |->
           IF var \in Range(var_similarity)
           THEN jaro_winkler_similarity(Cell(cluster, lines[k], var),
                                        Cell(cluster, ref_index, var))
                  > metric_confidence
           ELSE Cell(cluster, lines[k], var) = Cell(cluster, ref_index, var)]]]]

\* __matching_cluster__: one row per line of the cluster other than the
\* reference, one boolean per column
matching_cluster(cluster, ref_index, var_similarity, metric_confidence) ==
  LET lines == Pick(Index(cluster),
                    Where([i \in 1..Len(cluster.rows) |->
                             ~(cluster.rows[i].id = ref_index)]))
  IN [cols |-> cluster.cols,
      rows |-> [k \in 1..Len(lines) |->
        [id |-> lines[k],
         v |-> [var \in Range(cluster.cols) |->
           IF var \in Range(var_similarity)
           THEN jaro_winkler_similarity(Cell(cluster, lines[k], var),
                                        Cell(cluster, ref_index, var))
                  > metric_confidence
           ELSE Cell(cluster, lines[k], var) = Cell(cluster, ref_index, var)]]]]

RECURSIVE SumTrue(_, _, _)
SumTrue(row, var_threshold, i) ==
  IF i > Len(var_threshold) THEN 0
  ELSE (IF row.v[var_threshold[i]] THEN 1 ELSE 0)
       + SumTrue(row, var_threshold, i + 1)

\* __calculate_matching__: per row of match, the pair (sum, len) of the
\* quotient sum / len(var_threshold); match[var_threshold] raises KeyError on
\* a name that is no column; a quotient 0 / 0 is NaN (pandas raises nothing)
calculate_matching(match, var_threshold) ==
  IF \E i \in 1..Len(var_threshold) : ~HasColumn(match, var_threshold[i])
  THEN [err |-> "KeyError", cm |-> <<>>]
  ELSE [err |-> "",
        cm |-> [k \in 1..Len(match.rows) |->
                 [id |-> match.rows[k].id,
                  sum |-> SumTrue(match.rows[k], var_threshold, 1),
                  len |-> Len(var_threshold)]]]

\* a variant of the comparison with a strict inequality
Greater(q, threshold) ==
  IF q.len = 0 THEN FALSE ELSE q.sum * 1000 > threshold * q.len

\* cm >= self.threshold, false for NaN
GreaterEqual(q, threshold) ==
  IF q.len = 0 THEN FALSE ELSE q.sum * 1000 >= threshold * q.len

\* a variant of __df_deduplicate__ that renumbers the rows kept
\* (reset_index(drop=True))
df_deduplicate_reset_index(df, indice_dupli) ==
  LET kept == Loc(df, setdiff1d(Index(df), indice_dupli))
  IN [cols |-> kept.cols,
      rows |-> [i \in 1..Len(kept.rows) |->
                  [id |-> i - 1, v |-> kept.rows[i].v]]]

\* __df_deduplicate__
df_deduplicate(df, indice_dupli) ==
  Loc(df, setdiff1d(Index(df), indice_dupli))

\* lines 93-119: one turn of the loop of __get_indice_duplicated__ on the
\* object obj: the object afterwards, the indices found, what was computed
cluster_turn(obj, df, variable, dupli) ==
  LET mc == make_cluster(variable, df, obj.df_pcr, dupli)
      obj1 == IF obj.var_similarity = None
              THEN [obj EXCEPT !.var_similarity = Some(df.cols)]
              ELSE obj
      match == matching_cluster(mc.cluster, mc.ref_index,
                                Get(obj1.var_similarity), obj1.confidence)
      obj2 == IF obj1.var_threshold = None
              THEN [obj1 EXCEPT !.var_threshold = Some(df.cols)]
              ELSE obj1
      res == calculate_matching(match, Get(obj2.var_threshold))
      duplicate == [k \in 1..Len(res.cm) |->
                      GreaterEqual(res.cm[k], obj2.threshold)]
      found == Pick([k \in 1..Len(res.cm) |-> res.cm[k].id], Where(duplicate))
  IN IF mc.err # ""
     THEN [err |-> mc.err, obj |-> obj, found |-> <<>>, entry |-> <<>>]
     ELSE IF res.err # ""
     THEN [err |-> res.err, obj |-> obj2, found |-> <<>>, entry |-> <<>>]
     ELSE [err |-> "", obj |-> obj2, found |-> found,
           entry |-> <<[dupli |-> dupli,
                        index |-> Index(mc.cluster),
                        ref_index |-> mc.ref_index,
                        cm |-> res.cm,
                        duplicate |-> found]>>]

\* __get_indice_duplicated__, lines 91-121
RECURSIVE get_indice_duplicated(_, _, _, _)
get_indice_duplicated(obj, df, variable, values) ==
  IF values = <<>>
  THEN [err |-> "", obj |-> obj, indice |-> <<>>]
  ELSE LET r == cluster_turn(obj, df, variable, Head(values))
           rest == get_indice_duplicated(r.obj, df, variable, Tail(values))
       IN IF r.err # ""
          THEN [err |-> r.err, obj |-> r.obj, indice |-> <<>>]
          ELSE [err |-> rest.err, obj |-> rest.obj,
                indice |-> r.found \o rest.indice]

\* round(1 - after / before, 2), in hundredths (Python rounds half to even)
round2(after, before) ==
  LET num == 100 * (before - after)
      q == num \div before
      r == num % before
  IN IF 2 * r > before \/ (2 * r = before /\ q % 2 = 1) THEN q + 1 ELSE q

\* all_unique of detect_duplicates: the repeated values of a column
all_unique(df, variable) ==
  LET col == Column(df, variable)
  IN unique(Pick(col, Where(duplicated(col))))

\* the index of the rows whose patient_id is repeated (the final pass)
index_dupli_pi(df) ==
  Index(Filter(df, duplicated(Column(df, "patient_id"))))

\* lines 67-72: the table after the optional pass on patient_id
final_pass(obj, df) ==
  IF obj.remove_dupli_pi /\ HasColumn(df, "patient_id")
  THEN df_deduplicate(df, index_dupli_pi(df))
  ELSE df

\* lines 55-64: the passes from the i-th testing variable on
RECURSIVE passes(_, _, _)
passes(obj, df, i) ==
  LET variable == Get(obj.variable_testing)[i]
      r == get_indice_duplicated(obj, df, variable, all_unique(df, variable))
  IN IF i > Len(Get(obj.variable_testing))
     THEN [err |-> "", obj |-> obj, df |-> df]
     ELSE IF ~HasColumn(df, variable)
     THEN [err |-> "KeyError", obj |-> obj, df |-> df]
     ELSE IF r.err # ""
     THEN [err |-> r.err, obj |-> r.obj, df |-> df]
     ELSE passes(r.obj, df_deduplicate(df, r.indice), i + 1)

\* detect_duplicates as a function of the object and the argument: the
\* error raised or the table returned, and the object afterwards
detect_duplicates(obj, t) ==
  LET obj0 == IF obj.variable_testing = None
              THEN [obj EXCEPT !.variable_testing = Some(t.cols)]
              ELSE obj
      p == passes(obj0, t, 1)
      out == final_pass(p.obj, p.df)
  IN IF p.err # ""
     THEN [err |-> p.err, obj |-> p.obj, out |-> None]
     ELSE IF Len(t.rows) = 0
     THEN [err |-> "ZeroDivisionError", obj |-> p.obj, out |-> None]
     ELSE [err |-> "",
           obj |-> [p.obj EXCEPT
                      !.removed = Some(round2(Len(out.rows), Len(t.rows)))],
           out |-> Some(out)]

-----------------------------------------------------------------------------
(* Inputs *)

PidVals == {"p1", "p2"}
NameVals == {"ann", "anne"}
Layouts == {<<"patient_id", "name">>, <<"name">>}

\* the sequences of n elements of S
RECURSIVE SeqsOfLen(_, _)
SeqsOfLen(S, n) ==
  IF n = 0 THEN {<<>>}
  ELSE {Append(q, x) : q \in SeqsOfLen(S, n - 1), x \in S}

RowVals(cols) ==
  {[c \in Range(cols) |-> IF c = "patient_id" THEN p ELSE n] :
     p \in PidVals, n \in NameVals}

\* row identifiers are unique; the table lists them ascending or descending
IdOrders(n) == {[i \in 1..n |-> i], [i \in 1..n |-> n + 1 - i]}

TablesOf(cols, n) ==
  {[cols |-> cols, rows |-> [i \in 1..n |-> [id |-> ids[i], v |-> vs[i]]]] :
     ids \in IdOrders(n), vs \in SeqsOfLen(RowVals(cols), n)}

Tables == UNION {TablesOf(c, n) : c \in Layouts, n \in 0..MaxRows}
TablesAgain == UNION {TablesOf(c, n) : c \in Layouts, n \in 0..MaxRowsAgain}

PcrRows == [patient_id : PidVals, pcr : {"P", "N"}]
PcrTables == UNION {SeqsOfLen(PcrRows, n) : n \in 0..MaxPcr}

NewObject(variable_testing, var_threshold, df_pcr, var_similarity, threshold, remove_dupli_pi) ==
  [variable_testing |-> variable_testing, var_threshold |-> var_threshold,
   df_pcr |-> df_pcr, var_similarity |-> var_similarity,
   confidence |-> 800, threshold |-> threshold,
   remove_dupli_pi |-> remove_dupli_pi, removed |-> None]

\* objects built without a pcr table
PlainObjects ==
  {NewObject(vt, th, None, sim, t, pi) :
     vt \in {None, Some(<<"name">>), Some(<<"patient_id">>)},
     th \in {None, Some(<<>>), Some(<<"name">>)},
     sim \in {None, Some(<<>>)},
     t \in {700, 500},
     pi \in BOOLEAN}

\* objects whose defaults are left unset or set, for calls on several tables
ReuseObjects ==
  {NewObject(vt, th, None, sim, 700, pi) :
     vt \in {None, Some(<<"name">>)},
     th \in {None, Some(<<"name">>)},
     sim \in {None, Some(<<>>)},
     pi \in BOOLEAN}

\* objects built with or without a pcr table, the rest left by default
PcrObjects ==
  {NewObject(Some(<<"name">>), None, df_pcr, None, 700, FALSE) :
     df_pcr \in {None} \cup {Some(pcr) : pcr \in PcrTables}}

-----------------------------------------------------------------------------
(* The object and a call of detect_duplicates on it *)

InitWith(objects) ==
  /\ self \in objects
  /\ ctor = [variable_testing |-> self.variable_testing,
             var_similarity |-> self.var_similarity,
             var_threshold |-> self.var_threshold]
  /\ pc = "idle"
  /\ df_patient = None
  /\ df_patient_init = None
  /\ vi = 1
  /\ all_dupli = <<>>
  /\ indice_duplicates = <<>>
  /\ err = ""
  /\ ncalls = 0
  /\ prev = None
  /\ lastop = ""
  /\ clog = <<>>

\* the table the last call returned, once it has returned
ret == IF pc = "idle" /\ ncalls >= 1 THEN df_patient ELSE None

Init == InitWith(PlainObjects)

InitPcr == InitWith(PcrObjects)

InitReuse == InitWith(ReuseObjects)

\* lines 48-52: copy the argument, resolve the default of variable_testing
Enter(t) ==
  /\ ncalls < MaxCalls
  /\ ncalls' = ncalls + 1
  /\ df_patient_init' = Some(t)
  /\ df_patient' = Some(t)
  /\ self' = IF self.variable_testing = None
             THEN [self EXCEPT !.variable_testing = Some(t.cols)]
             ELSE self
  /\ vi' = 1
  /\ all_dupli' = <<>>
  /\ indice_duplicates' = <<>>
  /\ err' = ""
  /\ prev' = None
  /\ lastop' = ""
  /\ clog' = <<>>
  /\ pc' = "loop"
  /\ UNCHANGED ctor

\* detect_duplicates(T) on a new table, or on the table the last call returned
Call ==
  /\ pc = "idle"
  /\ \E t \in (IF ncalls = 0 THEN Tables ELSE {Get(ret)}) : Enter(t)

\* detect_duplicates on another table, after a call returned
CallAgain ==
  /\ pc = "idle"
  /\ ncalls >= 1
  /\ \E t \in TablesAgain : Enter(t)

\* lines 55-57: the next testing variable; df_patient[variable] raises
\* KeyError when the table has no such column
StartPass ==
  /\ pc = "loop"
  /\ vi <= Len(Get(self.variable_testing))
  /\ LET variable == Get(self.variable_testing)[vi]
     IN IF HasColumn(Get(df_patient), variable)
        THEN /\ all_dupli' = all_unique(Get(df_patient), variable)
             /\ pc' = "clusters"
             /\ err' = err
        ELSE /\ all_dupli' = <<>>
             /\ pc' = "error"
             /\ err' = "KeyError"
  /\ indice_duplicates' = <<>>
  /\ clog' = <<>>
  /\ UNCHANGED <<self, df_patient, df_patient_init, vi, ncalls, ctor,
                 prev, lastop>>

\* lines 93-119: one turn of the loop of __get_indice_duplicated__
ProcessCluster ==
  /\ pc = "clusters"
  /\ all_dupli # <<>>
  /\ LET r == cluster_turn(self, Get(df_patient),
                           Get(self.variable_testing)[vi], Head(all_dupli))
     IN /\ self' = r.obj
        /\ err' = r.err
        /\ IF r.err # ""
           THEN /\ pc' = "error"
                /\ UNCHANGED <<all_dupli, indice_duplicates, clog>>
           ELSE /\ pc' = "clusters"
                /\ all_dupli' = Tail(all_dupli)
                /\ indice_duplicates' = indice_duplicates \o r.found
                /\ clog' = clog \o r.entry
  /\ UNCHANGED <<df_patient, df_patient_init, vi, ncalls, ctor, prev,
                 lastop>>

\* lines 121, 64: the pass ends, the rows found are removed
Deduplicate ==
  /\ pc = "clusters"
  /\ all_dupli = <<>>
  /\ df_patient' = Some(df_deduplicate(Get(df_patient), indice_duplicates))
  /\ prev' = df_patient
  /\ lastop' = "pass"
  /\ vi' = vi + 1
  /\ pc' = "loop"
  /\ UNCHANGED <<self, df_patient_init, all_dupli, indice_duplicates, err,
                 ncalls, ctor, clog>>

\* lines 66-78, once the loop over the testing variables is over: the optional
\* pass on patient_id, self.removed, return. The quotient of line 76 raises
\* ZeroDivisionError when the argument had no row.
Finish ==
  /\ pc = "loop"
  /\ vi > Len(Get(self.variable_testing))
  /\ LET df == Get(df_patient)
         out == final_pass(self, df)
         after == Len(out.rows)
         before == Len(Get(df_patient_init).rows)
     IN /\ df_patient' = Some(out)
        /\ prev' = IF self.remove_dupli_pi /\ HasColumn(df, "patient_id")
                   THEN df_patient ELSE prev
        /\ lastop' = IF ~self.remove_dupli_pi THEN lastop
                     ELSE IF HasColumn(df, "patient_id") THEN "final"
                     ELSE "No patient id column"
        /\ IF before = 0
           THEN /\ pc' = "error"
                /\ err' = "ZeroDivisionError"
                /\ UNCHANGED self
           ELSE /\ pc' = "idle"
                /\ err' = err
                /\ self' = [self EXCEPT
                              !.removed = Some(round2(after, before))]
  /\ UNCHANGED <<df_patient_init, vi, all_dupli, indice_duplicates, ncalls,
                 ctor, clog>>

Next ==
  \/ Call
  \/ StartPass
  \/ ProcessCluster
  \/ Deduplicate
  \/ Finish

Spec == Init /\ [][Next]_vars

\* the same calls on an object built with a pcr table
SpecPcr == InitPcr /\ [][Next]_vars

\* one object called on a table, then on other tables
NextReuse == Next \/ CallAgain

SpecReuse == InitReuse /\ [][NextReuse]_vars

-----------------------------------------------------------------------------
(* Properties *)

Ids(df) == Range(Index(df))
RowSet(df) == Range(df.rows)
Row(df, id) == CHOOSE r \in Range(df.rows) : r.id = id

\* the state right after the removal that ends a pass: prev is the table the
\* pass read, clog its clusters, df_patient the table it returned
AfterPass == pc = "loop" /\ lastop = "pass"

\* a call has ended, by a return or by an exception
Ended == ncalls >= 1 /\ pc \in {"idle", "error"}

\* C1: a second run of detect_duplicates, on the table the first run
\* returned, returns the same set of rows (it removes no further row).
C1_Idempotent ==
  (pc = "idle" /\ ncalls >= 2)
    => Ids(Get(ret)) = Ids(Get(df_patient_init))

\* C2: the reference row chosen for a cluster is a row of the cluster, is
\* never among the duplicate indices collected for that cluster, and is
\* still in the table the pass returns.
C2_ReferenceSurvives ==
  /\ \A k \in 1..Len(clog) :
       /\ clog[k].ref_index \in Range(clog[k].index)
       /\ clog[k].ref_index \notin Range(clog[k].duplicate)
  /\ AfterPass =>
       \A k \in 1..Len(clog) : clog[k].ref_index \in Ids(Get(df_patient))

\* a pass with a pcr table whose reference is not the first row of its
\* cluster, and which removed a row of that cluster
C2_Witness ==
  /\ AfterPass
  /\ self.df_pcr # None
  /\ \E k \in 1..Len(clog) :
       /\ clog[k].ref_index # clog[k].index[1]
       /\ clog[k].duplicate # <<>>
       /\ clog[k].ref_index \in Ids(Get(df_patient))

\* C3: with var_threshold an empty collection, a call in which a cluster was
\* processed does not return normally: it ends in an error.
C3_EmptyThresholdRaises ==
  ~(pc = "idle" /\ ncalls >= 1 /\ self.var_threshold = Some(<<>>)
      /\ clog # <<>>)

NoRepeat(df, var) == HasColumn(df, var) /\ all_unique(df, var) = <<>>

\* the argument of the call gives nothing to remove: it is empty, or no
\* testing variable (nor patient_id, for the final pass) has a repeated value
NoOpInput ==
  LET arg == Get(df_patient_init)
      vt == Get(self.variable_testing)
  IN /\ \A i \in 1..Len(vt) : NoRepeat(arg, vt[i])
     /\ (self.remove_dupli_pi /\ HasColumn(arg, "patient_id"))
          => NoRepeat(arg, "patient_id")

\* C4: a call on an empty table, or on a table without a repeated value,
\* returns normally with zero rows removed and the removal ratio computed.
C4_NoOpCompletes ==
  (Ended /\ NoOpInput)
    => /\ pc = "idle"
       /\ Len(Get(ret).rows) = Len(Get(df_patient_init).rows)
       /\ self.removed = Some(0)

\* whether a field of row x matches the reference, as the Matcher defines it
FieldMatches(x, ref, var) ==
  IF var \in Range(Get(self.var_similarity))
  THEN jaro_winkler_similarity(x.v[var], ref.v[var]) > self.confidence
  ELSE x.v[var] = ref.v[var]

\* the number of true match cells among the threshold fields
TrueCells(x, ref, fields) ==
  Cardinality({i \in 1..Len(fields) : FieldMatches(x, ref, fields[i])})

C6_RowsPreserved ==
  /\ lastop \in {"pass", "final"} =>
       /\ RowSet(Get(df_patient)) \subseteq RowSet(Get(prev))
       /\ Len(Get(df_patient).rows) <= Len(Get(prev).rows)
  /\ ncalls >= 1 =>
       /\ RowSet(Get(df_patient)) \subseteq RowSet(Get(df_patient_init))
       /\ Len(Get(df_patient).rows) <= Len(Get(df_patient_init).rows)

\* a pass removed a row and kept at least two
C6_Witness ==
  /\ AfterPass
  /\ Len(Get(df_patient).rows) >= 2
  /\ Len(Get(df_patient).rows) < Len(Get(prev).rows)
  /\ RowSet(Get(df_patient)) \subseteq RowSet(Get(prev))

\* the pcr table, and within a cluster of the running pass: the linked rows
\* in cluster order, the positive pcr rows of the linked entities
Pcr == Get(self.df_pcr)
PatientOf(id) == Row(Get(df_patient), id).v["patient_id"]
LinkedRows(entry) ==
  SelectSeq(entry.index,
            LAMBDA id : \E j \in 1..Len(Pcr) : Pcr[j].patient_id = PatientOf(id))
PositiveLabels(entry) ==
  {j \in 1..Len(Pcr) :
     /\ Pcr[j].pcr = "P"
     /\ \E i \in 1..Len(LinkedRows(entry)) :
          PatientOf(LinkedRows(entry)[i]) = Pcr[j].patient_id}
FirstPositiveLabel(entry) ==
  CHOOSE j \in PositiveLabels(entry) : \A m \in PositiveLabels(entry) : j <= m
SeveralLinked(entry) == Len(LinkedRows(entry)) >= 2

\* C7 as stated: with two or more linked rows in a cluster, the reference is
\* the cluster row of the first linked-and-positive entity in pcr table order
\* if there is a positive one, the first linked row otherwise.
C7_FirstPositiveInPcrOrder ==
  (pc = "clusters" /\ self.df_pcr # None) =>
    \A k \in 1..Len(clog) :
      SeveralLinked(clog[k]) =>
        IF PositiveLabels(clog[k]) # {}
        THEN clog[k].ref_index =
               SelectSeq(LinkedRows(clog[k]),
                         LAMBDA id : PatientOf(id) =
                            Pcr[FirstPositiveLabel(clog[k])].patient_id)[1]
        ELSE clog[k].ref_index = LinkedRows(clog[k])[1]

\* C7 amended: with two or more linked rows in a cluster, the reference is
\* the first row, in cluster order, that is linked and whose entity has a
\* positive pcr row, if there is one, the first linked row otherwise.
C7_FirstPositiveInClusterOrder ==
  (pc = "clusters" /\ self.df_pcr # None) =>
    \A k \in 1..Len(clog) :
      SeveralLinked(clog[k]) =>
        IF PositiveLabels(clog[k]) # {}
        THEN clog[k].ref_index =
               SelectSeq(LinkedRows(clog[k]),
                         LAMBDA id : \E j \in PositiveLabels(clog[k]) :
                            PatientOf(id) = Pcr[j].patient_id)[1]
        ELSE clog[k].ref_index = LinkedRows(clog[k])[1]

\* a cluster with several linked rows, two positive entities among them,
\* whose reference is not the row of the first positive of the pcr table
C7_Witness ==
  /\ pc = "clusters"
  /\ self.df_pcr # None
  /\ \E k \in 1..Len(clog) :
       /\ SeveralLinked(clog[k])
       /\ PositiveLabels(clog[k]) # {}
       /\ Cardinality({Pcr[j].patient_id : j \in PositiveLabels(clog[k])}) >= 2
       /\ PatientOf(clog[k].ref_index)
            # Pcr[FirstPositiveLabel(clog[k])].patient_id

\* C8: the final pass removes the rows an ordinary pass with the blocking key
\* patient_id would remove (so the reference of every patient_id cluster
\* survives it).
C8_FinalPassLikeOrdinaryPass ==
  (pc = "idle" /\ lastop = "final") =>
    LET df == Get(prev)
        ord == get_indice_duplicated(self, df, "patient_id",
                                     all_unique(df, "patient_id"))
    IN ord.err = "" => Ids(Get(df_patient)) = Ids(df) \ Range(ord.indice)

\* C9: the table returned by a removal holds the rows that were not removed
\* in the same relative order as the table it read.
C9_OrderPreserved ==
  lastop \in {"pass", "final"} =>
    Get(df_patient).rows =
      SelectSeq(Get(prev).rows, LAMBDA r : r.id \in Ids(Get(df_patient)))

\* the object as its constructor built it
NewlyBuilt ==
  [self EXCEPT !.variable_testing = ctor.variable_testing,
               !.var_similarity = ctor.var_similarity,
               !.var_threshold = ctor.var_threshold,
               !.removed = None]

\* C10: a call on an object built with its defaults unset uses the columns
\* of the table passed to that call, and ends as the same call on a newly
\* built object with the same constructor arguments.
C10_DefaultsPerCall ==
  /\ (pc \in {"loop", "clusters"} /\ ctor.variable_testing = None)
       => self.variable_testing = Some(Get(df_patient_init).cols)
  /\ (pc = "clusters" /\ clog # <<>> /\ ctor.var_similarity = None)
       => self.var_similarity = Some(Get(df_patient_init).cols)
  /\ (pc = "clusters" /\ clog # <<>> /\ ctor.var_threshold = None)
       => self.var_threshold = Some(Get(df_patient_init).cols)
  /\ Ended =>
       LET fresh == detect_duplicates(NewlyBuilt, Get(df_patient_init))
       IN /\ fresh.err = err
          /\ err = "" => fresh.out = ret

====
